---- MODULE Spec2Model ----
(***************************************************************************)
(* E8 root-system explorer (langhuihui/e8-demo): the root generator of     *)
(* src/lib/e8.ts, the projections of the same file, and the rotation       *)
(* builders of the 2D view (createRotationMatrix) and of the 3D view       *)
(* (createRotationMatrix8D).                                               *)
(*                                                                         *)
(* Numbers.  The program computes in IEEE doubles.  Every value the        *)
(* generator produces is a multiple of 0.5, so a coordinate x is held as   *)
(* the integer x * Unit (Unit = 2): 1 is 2, 0.5 is 1, -0.5 is -1.  These   *)
(* values and their small sums and products are exact in doubles.          *)
(***************************************************************************)
EXTENDS Integers, Sequences, FiniteSets, TLC

\* src/lib/e8.ts:17 Array(8): the dimension of the space
Dim == 8
\* the integer that stands for the number 1 (coordinates are held in halves)
Unit == 2
\* the integer that stands for the number 0.5 of e8.ts:45
HalfUnit == 1
\* e8.ts:34 the 2^8 sign assignments
SignCombinations == 256

Axes == 0 .. (Dim - 1)

VARIABLES
  pc,        \* position of generateE8RootSystem: "integer","half","append","done"
  roots,     \* e8.ts:10 const roots: E8RootVector[]
  result,    \* e8.ts:32 const result: E8RootVector[] of generateHalfIntegerRoots
  gi, gj, gs1, gs2,  \* e8.ts:13-16 the loop variables i, j, s1, s2
  hi,        \* e8.ts:34 the loop variable i of generateHalfIntegerRoots
  e8System,  \* e8.ts:58 the returned E8RootSystem (<<>> before the return)
  callee,    \* the function under call: "createRotationMatrix",
             \* "createRotationMatrix8D", "projectTo2D", "projectTo3D",
             \* "animate", "useEffect", or the view mounted
  angles,    \* the argument "angles" of a rotation builder
  matrix,    \* the matrix a rotation builder returned (<<>> before)
  pointA, pointB,  \* two 8-vectors given to a projection
  projection,      \* the argument "projectionMatrix" (8 rows of 2 or 3 entries)
  projected, \* what the projections returned (<<>> before)
  direct,    \* part_002:194 projected3D (<<>> before)
  framed,    \* part_002:327-335 the projected points of one frame (<<>> before)
  showLines,         \* E8Visualization2D.tsx:16 state showLines
  displayedRoots,    \* E8Visualization2D.tsx:17 state displayedRoots
  autoRotate,        \* part_002:20,27 state autoRotate and autoRotateRef
  showConnections,   \* part_002:21,29 state showConnections and its ref
  manualAngles,      \* part_002:24,30 state manualAngles and manualAnglesRef
  rotationAnglesRef, \* part_002:39 the accumulated auto-rotation angles
  lineCount,         \* part_002:267,360 linePositionAttr.count
  lineIdx            \* part_002:361 lineIdx after the line update of a frame

genLocals == <<roots, result, gi, gj, gs1, gs2, hi>>
genVars == <<pc, roots, result, gi, gj, gs1, gs2, hi, e8System>>
rotVars == <<callee, angles, matrix>>
projVars == <<pointA, pointB, projection, projected>>
frameVars == <<direct, framed>>
view2DVars == <<showLines, displayedRoots>>
lineVars == <<lineCount, lineIdx>>
view3DVars == <<autoRotate, showConnections, manualAngles, rotationAnglesRef,
                lineCount, lineIdx>>
viewVars == <<showLines, displayedRoots,
              autoRotate, showConnections, manualAngles, rotationAnglesRef,
              lineCount, lineIdx>>

vars == <<pc, roots, result, gi, gj, gs1, gs2, hi, e8System,
          callee, angles, matrix, pointA, pointB, projection, projected,
          direct, framed, showLines, displayedRoots,
          autoRotate, showConnections, manualAngles, rotationAnglesRef,
          lineCount, lineIdx>>

\* the values the variables hold in the specifications that do not use them
GenIdle ==
  /\ roots = <<>> /\ result = <<>> /\ hi = 0
  /\ gi = 0 /\ gj = 0 /\ gs1 = 0 /\ gs2 = 0
RotIdle == callee = "none" /\ angles = <<>> /\ matrix = <<>>
ProjIdle == pointA = <<>> /\ pointB = <<>> /\ projection = <<>> /\ projected = <<>>
FrameIdle == direct = <<>> /\ framed = <<>>
View2DIdle == showLines = FALSE /\ displayedRoots = 0
View3DIdle ==
  /\ autoRotate = FALSE /\ showConnections = FALSE
  /\ manualAngles = <<>> /\ rotationAnglesRef = <<>>
  /\ lineCount = <<>> /\ lineIdx = <<>>
ViewIdle == View2DIdle /\ View3DIdle

----------------------------------------------------------------------------
(* generateE8RootSystem, e8.ts:9-74 *)

\* e8.ts:17 Array(8).fill(0)
ZeroVector == [k \in 1 .. Dim |-> 0]

\* e8.ts:15 and :16  "let s = -1": the first sign each sign loop takes
FirstSign == -1

\* e8.ts:14 "let j = i + 1"
JStart_same(i) == i
JStart(i) == i + 1

\* e8.ts:17-19 coords = Array(8).fill(0); coords[i] = s1; coords[j] = s2
\* (axis a of the code is position a + 1 of the sequence)
IntegerCoords_negated(i, j, s1, s2) ==
  [[ZeroVector EXCEPT ![i + 1] = (-s1) * Unit] EXCEPT ![j + 1] = (-s2) * Unit]
IntegerCoords(i, j, s1, s2) ==
  [[ZeroVector EXCEPT ![i + 1] = s1 * Unit] EXCEPT ![j + 1] = s2 * Unit]

\* e8.ts:20-23 roots.push({coordinates: coords, index: roots.length})
PushIntegerRoot(rs, i, j, s1, s2) ==
  Append(rs, [coordinates |-> IntegerCoords(i, j, s1, s2), index |-> Len(rs)])

\* e8.ts:13-16 the loop headers: the position after the body ran at
\* (i, j, s1, s2); i = Dim means that the outer loop has ended
NextPos(i, j, s1, s2) ==
  IF s2 + 2 <= 1 THEN [i |-> i, j |-> j, s1 |-> s1, s2 |-> s2 + 2]
  ELSE IF s1 + 2 <= 1 THEN [i |-> i, j |-> j, s1 |-> s1 + 2, s2 |-> FirstSign]
  ELSE IF j + 1 < Dim
       THEN [i |-> i, j |-> j + 1, s1 |-> FirstSign, s2 |-> FirstSign]
  ELSE IF JStart(i + 1) < Dim
       THEN [i |-> i + 1, j |-> JStart(i + 1), s1 |-> FirstSign, s2 |-> FirstSign]
  ELSE [i |-> Dim, j |-> Dim, s1 |-> FirstSign, s2 |-> FirstSign]

\* e8.ts:38 (i >> j) & 1
IsNegative_shifted(i, j) == (i \div (2 ^ (j + 1))) % 2
IsNegative(i, j) == (i \div (2 ^ j)) % 2

\* e8.ts:35-41 signs: the sign of every axis j for combination i
Signs(i) == [k \in 1 .. Dim |-> IF IsNegative(i, k - 1) = 1 THEN -1 ELSE 1]

\* e8.ts:36-41 negativeCount
NegativeCount(i) == Cardinality({j \in Axes : IsNegative(i, j) = 1})

\* e8.ts:44 negativeCount % 2 === 0
EvenParity_odd(n) == n % 2 = 1
EvenParity(n) == n % 2 = 0

\* e8.ts:45 signs.map(s => s * 0.5)
HalfCoords_whole(signs) == [k \in 1 .. Dim |-> signs[k] * Unit]
HalfCoords(signs) == [k \in 1 .. Dim |-> signs[k] * HalfUnit]

\* e8.ts:48 index: roots.length + result.length
HalfIndex_local(rs, res) == Len(res)
HalfIndex(rs, res) == Len(rs) + Len(res)

\* e8.ts:34-51 one iteration of the loop of generateHalfIntegerRoots
HalfIntegerIteration(rs, res, i) ==
  IF EvenParity(NegativeCount(i))
  THEN Append(res, [coordinates |-> HalfCoords(Signs(i)),
                    index |-> HalfIndex(rs, res)])
  ELSE res

\* e8.ts:56 roots.push(...halfIntegerRoots)
PushHalfRoots_front(rs, res) == res \o rs
PushHalfRoots(rs, res) == rs \o res

\* e8.ts:62-71 cartanMatrix
CartanMatrix ==
  [r \in 1 .. Dim |-> [c \in 1 .. Dim |->
     IF r = c THEN 2 ELSE IF r = c + 1 \/ c = r + 1 THEN -1 ELSE 0]]

\* e8.ts:72 weylGroupOrder
WeylGroupOrder == 696729600

\* e8.ts:58-73 the returned object
ReturnValue(rs) ==
  [roots |-> rs, dimension |-> 8, rank |-> 8,
   cartanMatrix |-> CartanMatrix, weylGroupOrder |-> WeylGroupOrder]

\* e8.ts:13-16 the loop variables when the first body runs
StartPos == [i |-> 0, j |-> JStart(0), s1 |-> FirstSign, s2 |-> FirstSign]

\* e8.ts:13-27 one execution of the innermost body and the loop headers
\* after it, on the pair of roots and loop variables; nothing once the
\* outer loop has ended
IntegerIteration(st) ==
  IF st.pos.i >= Dim THEN st
  ELSE [rs |-> PushIntegerRoot(st.rs, st.pos.i, st.pos.j, st.pos.s1, st.pos.s2),
        pos |-> NextPos(st.pos.i, st.pos.j, st.pos.s1, st.pos.s2)]

\* e8.ts:13-27 the next n executions of the innermost body (the count is
\* halved, and the first half finished before the second, to keep the
\* evaluation shallow)
RECURSIVE IntegerIterations(_, _)
IntegerIterations(st, n) ==
  IF n = 0 THEN st
  ELSE IF n = 1 THEN IntegerIteration(st)
  ELSE LET half == IntegerIterations(st, n \div 2)
       IN IF half.pos.i >= 0 THEN IntegerIterations(half, n - (n \div 2)) ELSE half

\* e8.ts:13-27 the integer-root loops run to their end: the body runs at
\* most 4 times for each of the Dim * Dim pairs of axes
IntegerLoop(rs, pos) ==
  IntegerIterations([rs |-> rs, pos |-> pos], 4 * Dim * Dim).rs

\* e8.ts:31-53 generateHalfIntegerRoots: the iterations first .. end - 1 of
\* its loop, in order (the range is halved, and the first half finished
\* before the second, to keep the evaluation shallow)
RECURSIVE HalfIntegerLoop(_, _, _, _)
HalfIntegerLoop(rs, res, first, end) ==
  IF first >= end THEN res
  ELSE IF end = first + 1 THEN HalfIntegerIteration(rs, res, first)
  ELSE LET mid == (first + end) \div 2
           left == HalfIntegerLoop(rs, res, first, mid)
       IN IF Len(left) >= 0 THEN HalfIntegerLoop(rs, left, mid, end) ELSE left

\* e8.ts:9-74 generateE8RootSystem as one call (the views call it so)
GenerateE8RootSystem ==
  LET rs == IntegerLoop(<<>>, StartPos)
  IN ReturnValue(PushHalfRoots(rs, HalfIntegerLoop(rs, <<>>, 0, SignCombinations)))

\* the coordinate tuples of the generated roots
RootVectors ==
  {GenerateE8RootSystem.roots[n].coordinates :
     n \in 1 .. Len(GenerateE8RootSystem.roots)}

InitGen ==
  /\ pc = "integer"
  /\ roots = <<>>
  /\ result = <<>>
  /\ gi = StartPos.i
  /\ gj = StartPos.j
  /\ gs1 = StartPos.s1
  /\ gs2 = StartPos.s2
  /\ hi = 0
  /\ e8System = <<>>
  /\ RotIdle /\ ProjIdle /\ FrameIdle /\ ViewIdle

\* e8.ts:13-27 one execution of the innermost loop body
IntegerRootStep ==
  /\ pc = "integer"
  /\ gi < Dim
  /\ roots' = PushIntegerRoot(roots, gi, gj, gs1, gs2)
  /\ LET n == NextPos(gi, gj, gs1, gs2) IN
       /\ gi' = n.i
       /\ gj' = n.j
       /\ gs1' = n.s1
       /\ gs2' = n.s2
       /\ pc' = IF n.i < Dim THEN "integer" ELSE "half"
  /\ UNCHANGED <<result, hi, e8System, rotVars, projVars, frameVars, viewVars>>

\* e8.ts:34-51 one iteration of the loop over the sign combinations
HalfIntegerStep ==
  /\ pc = "half"
  /\ hi < SignCombinations
  /\ result' = HalfIntegerIteration(roots, result, hi)
  /\ hi' = hi + 1
  /\ pc' = IF hi + 1 < SignCombinations THEN "half" ELSE "append"
  /\ UNCHANGED <<roots, gi, gj, gs1, gs2, e8System, rotVars, projVars, frameVars, viewVars>>

\* e8.ts:55-73 roots.push(...halfIntegerRoots) and the return
AppendAndReturn ==
  /\ pc = "append"
  /\ roots' = PushHalfRoots(roots, result)
  /\ e8System' = ReturnValue(PushHalfRoots(roots, result))
  /\ pc' = "done"
  /\ UNCHANGED <<result, gi, gj, gs1, gs2, hi, rotVars, projVars, frameVars, viewVars>>

NextGen == IntegerRootStep \/ HalfIntegerStep \/ AppendAndReturn

SpecGen == InitGen /\ [][NextGen]_vars

----------------------------------------------------------------------------
(* Properties of the generator, stated of the value it returns *)

\* the sum of the squares of the entries of an 8-vector
SumSquares(v) ==
  LET RECURSIVE Go(_)
      Go(k) == IF k = 0 THEN 0 ELSE v[k] * v[k] + Go(k - 1)
  IN Go(Len(v))

\* the entries of a vector that are negative
Negatives(v) == {k \in 1 .. Len(v) : v[k] < 0}

\* a vector of the half-integer family: every entry is +0.5 or -0.5
IsHalfType(v) == \A k \in 1 .. Len(v) : v[k] \in {HalfUnit, -HalfUnit}

\* a vector of the integer family: two entries +1 or -1, six zeros
IsIntegerType(v) ==
  /\ \A k \in 1 .. Len(v) : v[k] \in {Unit, -Unit, 0}
  /\ Cardinality({k \in 1 .. Len(v) : v[k] # 0}) = 2

Returned == pc = "done"

\* the loops taken step by step return what the one-call form returns
StepwiseIsOneCall == Returned => e8System = GenerateE8RootSystem

\* the coordinate tuples of the half-integer roots in the returned sequence
ReturnedHalfRoots ==
  {e8System.roots[k].coordinates : k \in
     {n \in 1 .. Len(e8System.roots) : IsHalfType(e8System.roots[n].coordinates)}}

\* every vector (+-0.5)^8 with an even number of negative entries
EvenHalfVectors ==
  {v \in [1 .. Dim -> {HalfUnit, -HalfUnit}] : Cardinality(Negatives(v)) % 2 = 0}

AllPlusHalf == [k \in 1 .. Dim |-> HalfUnit]
OneMinusHalf == [k \in 1 .. Dim |-> IF k = 1 THEN -HalfUnit ELSE HalfUnit]

\* C1: the returned roots sequence has exactly 240 elements and every
\* element's coordinates array has exactly 8 entries.
C1_RootCount ==
  Returned =>
    /\ Len(e8System.roots) = 240
    /\ \A k \in 1 .. Len(e8System.roots) :
         Len(e8System.roots[k].coordinates) = 8

C1_Witness ==
  /\ Returned
  /\ Len(e8System.roots) > 0
  /\ e8System.dimension = 8

\* C2: every returned root has squared Euclidean length exactly 2, in the
\* integer family and in the half-integer family (2 is 2 * Unit * Unit in
\* the held integers).
C2_RootNorm ==
  Returned =>
    \A k \in 1 .. Len(e8System.roots) :
      SumSquares(e8System.roots[k].coordinates) = 2 * Unit * Unit

C2_Witness ==
  /\ Returned
  /\ \E k \in 1 .. Len(e8System.roots) :
       IsIntegerType(e8System.roots[k].coordinates)
  /\ \E k \in 1 .. Len(e8System.roots) :
       IsHalfType(e8System.roots[k].coordinates)

\* C3: the half-integer roots returned are exactly the 128 vectors with
\* every coordinate +-0.5 and an even number of negative coordinates; the
\* all-+0.5 vector is present and [-0.5,0.5,...,0.5] is absent.
C3_HalfParity ==
  Returned =>
    /\ ReturnedHalfRoots = EvenHalfVectors
    /\ Cardinality(ReturnedHalfRoots) = 128
    /\ AllPlusHalf \in ReturnedHalfRoots
    /\ OneMinusHalf \notin ReturnedHalfRoots

C3_Witness ==
  /\ Returned
  /\ \E k \in 1 .. Len(e8System.roots) :
       /\ IsHalfType(e8System.roots[k].coordinates)
       /\ Cardinality(Negatives(e8System.roots[k].coordinates)) = 2

\* C4: no two distinct positions of the returned roots hold the same
\* coordinate tuple.
C4_Distinct ==
  Returned =>
    \A k, l \in 1 .. Len(e8System.roots) :
      k # l => e8System.roots[k].coordinates # e8System.roots[l].coordinates

C4_Witness ==
  /\ Returned
  /\ Len(e8System.roots) >= 2
  /\ e8System.roots[1].coordinates # e8System.roots[Len(e8System.roots)].coordinates

\* C5: the root at position k (zero-based) of the returned sequence has
\* index k, the half-integer roots included.
C5_IndexIsPosition ==
  Returned =>
    \A k \in 1 .. Len(e8System.roots) : e8System.roots[k].index = k - 1

C5_Witness ==
  /\ Returned
  /\ \E k \in 1 .. Len(e8System.roots) :
       /\ IsHalfType(e8System.roots[k].coordinates)
       /\ e8System.roots[k].index = k - 1
       /\ k - 1 >= 112

\* C6 as stated: the root at index 0 has coordinates [1,1,0,0,0,0,0,0].
C6_FirstRootAsClaimed ==
  Returned =>
    e8System.roots[1].coordinates = <<Unit, Unit, 0, 0, 0, 0, 0, 0>>

\* C6 as amended: both sign loops start at -1, so the root at index 0 has
\* coordinates [-1,-1,0,0,0,0,0,0]; [1,1,0,0,0,0,0,0] is the root at index 3.
C6_FirstRoot ==
  Returned =>
    /\ e8System.roots[1].coordinates = <<-Unit, -Unit, 0, 0, 0, 0, 0, 0>>
    /\ e8System.roots[4].coordinates = <<Unit, Unit, 0, 0, 0, 0, 0, 0>>

C6_Witness ==
  /\ Returned
  /\ e8System.roots[1].index = 0
  /\ e8System.roots[1].coordinates[3] = 0

\* every vector with two entries +1 or -1 and six zeros
AllIntegerVectors == {v \in [1 .. Dim -> {Unit, 0, -Unit}] : IsIntegerType(v)}

\* the coordinate tuples at the zero-based indices first .. last
CoordinatesAt(first, last) ==
  {e8System.roots[k + 1].coordinates : k \in first .. last}

\* C14: indices 0..111 of the returned roots hold exactly the 112
\* integer-type roots (one for every axis pair i < j and sign pair) and
\* indices 112..239 hold exactly the 128 half-integer roots, so that no
\* half-integer root precedes an integer-type root.
C14_IntegerRootsFirst ==
  Returned =>
    /\ Len(e8System.roots) = 240
    /\ \A k \in 0 .. 111 : IsIntegerType(e8System.roots[k + 1].coordinates)
    /\ CoordinatesAt(0, 111) = AllIntegerVectors
    /\ Cardinality(AllIntegerVectors) = 112
    /\ \A k \in 112 .. 239 : IsHalfType(e8System.roots[k + 1].coordinates)
    /\ CoordinatesAt(112, 239) = EvenHalfVectors

C14_Witness ==
  /\ Returned
  /\ IsIntegerType(e8System.roots[112].coordinates)
  /\ IsHalfType(e8System.roots[113].coordinates)
  /\ e8System.roots[112].coordinates[7] # 0
  /\ e8System.roots[112].coordinates[8] # 0

----------------------------------------------------------------------------
(* Angles and exact trigonometry.                                          *)
(* The program takes angles in radians and calls Math.cos and Math.sin.    *)
(* The model takes the angles whose cosine and sine are rational: an       *)
(* angle is [q |-> a, k |-> b], standing for a quarter turns plus b times  *)
(* the angle Tilt with cos Tilt = 3/5 and sin Tilt = 4/5.  Its cosine is   *)
(* Cos(a) / TrigDen(a) and its sine Sin(a) / TrigDen(a), with              *)
(* TrigDen(a) = 5^|b|.  The number 0 of the program is ZeroAngle.          *)

ZeroAngle == [q |-> 0, k |-> 0]

\* numerators of cos(n * Tilt) and sin(n * Tilt) over 5^n, n >= 0
RECURSIVE TiltCosSin(_)
TiltCosSin(n) ==
  IF n = 0 THEN <<1, 0>>
  ELSE LET p == TiltCosSin(n - 1)
       IN <<3 * p[1] - 4 * p[2], 4 * p[1] + 3 * p[2]>>

Abs(n) == IF n < 0 THEN -n ELSE n

TrigDen(a) == 5 ^ Abs(a.k)

TiltCos(a) == TiltCosSin(Abs(a.k))[1]
TiltSin(a) == IF a.k < 0 THEN -TiltCosSin(Abs(a.k))[2] ELSE TiltCosSin(Abs(a.k))[2]

\* Math.cos(angle), times TrigDen(angle)
Cos(a) ==
  CASE a.q % 4 = 0 -> TiltCos(a)
    [] a.q % 4 = 1 -> -TiltSin(a)
    [] a.q % 4 = 2 -> -TiltCos(a)
    [] a.q % 4 = 3 -> TiltSin(a)

\* Math.sin(angle), times TrigDen(angle)
Sin(a) ==
  CASE a.q % 4 = 0 -> TiltSin(a)
    [] a.q % 4 = 1 -> TiltCos(a)
    [] a.q % 4 = 2 -> -TiltSin(a)
    [] a.q % 4 = 3 -> -TiltCos(a)

----------------------------------------------------------------------------
(* Matrices.  An 8x8 matrix of the program is held as [num, den]: entry    *)
(* (r, c) of the program (zero-based) is num[r + 1][c + 1] / den.          *)

Rows == 1 .. Dim

\* the sum over the 8 axes of F (the loops "for k < 8" of the program)
SumAxes(F(_)) == F(1) + F(2) + F(3) + F(4) + F(5) + F(6) + F(7) + F(8)

\* the array of length 8 whose entry at axis k - 1 is F(k)
Array8(F(_)) == <<F(1), F(2), F(3), F(4), F(5), F(6), F(7), F(8)>>

\* the 8x8 array of arrays whose entry (r - 1, c - 1) is F(r, c)
Array8x8(F(_, _)) ==
  LET Row(r) == LET Entry(c) == F(r, c) IN Array8(Entry) IN Array8(Row)

\* E8Visualization2D.tsx:22-25 and part_002:44-46 the identity matrix
IdentityNum_noDiagonal == LET Entry(r, c) == 0 IN Array8x8(Entry)
IdentityNum == LET Entry(r, c) == IF r = c THEN 1 ELSE 0 IN Array8x8(Entry)
IdentityMatrix == [num |-> IdentityNum, den |-> 1]

\* E8Visualization2D.tsx:39-46 planeMatrix for the plane (i, j), zero-based
PlaneMatrix_noCosJ(i, j, a) ==
  LET Entry(r, c) ==
        IF r = i + 1 /\ c = i + 1 THEN Cos(a)
        ELSE IF r = i + 1 /\ c = j + 1 THEN -Sin(a)
        ELSE IF r = j + 1 /\ c = i + 1 THEN Sin(a)
        ELSE IF r = c THEN TrigDen(a)
        ELSE 0
  IN [num |-> Array8x8(Entry), den |-> TrigDen(a)]
PlaneMatrix(i, j, a) ==
  LET Entry(r, c) ==
        IF r = i + 1 /\ c = i + 1 THEN Cos(a)
        ELSE IF r = i + 1 /\ c = j + 1 THEN -Sin(a)
        ELSE IF r = j + 1 /\ c = i + 1 THEN Sin(a)
        ELSE IF r = j + 1 /\ c = j + 1 THEN Cos(a)
        ELSE IF r = c THEN TrigDen(a)
        ELSE 0
  IN [num |-> Array8x8(Entry), den |-> TrigDen(a)]

\* E8Visualization2D.tsx:59-69 multiplyMatrices
\* (the mutant: result[i][j] += b[i][k] * a[k][j])
MultiplyMatrices_swapped(a, b) ==
  LET Entry(r, c) == LET Term(k) == b.num[r][k] * a.num[k][c] IN SumAxes(Term)
  IN [num |-> Array8x8(Entry), den |-> a.den * b.den]
MultiplyMatrices(a, b) ==
  LET Entry(r, c) == LET Term(k) == a.num[r][k] * b.num[k][c] IN SumAxes(Term)
  IN [num |-> Array8x8(Entry), den |-> a.den * b.den]

\* E8Visualization2D.tsx:31-32 the axis pairs in loop order: position n
\* (one-based) is the pair that angleIndex = n - 1 meets
RECURSIVE PairsFrom(_, _)
PairsFrom(i, j) ==
  IF i >= Dim THEN <<>>
  ELSE IF j >= Dim THEN PairsFrom(i + 1, i + 2)
  ELSE <<<<i, j>>>> \o PairsFrom(i, j + 1)

AxisPairs == PairsFrom(0, 1)

\* E8Visualization2D.tsx:33 angleIndex < angles.length && angles[angleIndex] !== 0
PlaneActive(as, n) == n <= Len(as) /\ as[n] # ZeroAngle

\* E8Visualization2D.tsx:30-53 the loop over the planes, from pair n on
RECURSIVE RotationLoop(_, _, _)
RotationLoop(as, n, current) ==
  IF n > Len(AxisPairs) THEN current
  ELSE RotationLoop(as, n + 1,
         IF PlaneActive(as, n)
         THEN MultiplyMatrices(PlaneMatrix(AxisPairs[n][1], AxisPairs[n][2], as[n]),
                               current)
         ELSE current)

\* E8Visualization2D.tsx:20-56 createRotationMatrix
CreateRotationMatrix(as) == RotationLoop(as, 1, IdentityMatrix)

\* part_002:50-59 planes
Planes8D == << <<0, 1>>, <<2, 3>>, <<4, 5>>, <<6, 7>>,
               <<0, 4>>, <<1, 5>>, <<2, 6>>, <<3, 7>> >>

\* part_002:69-74 the update of columns i and j of every row k (the other
\* columns keep their value, which the held numerator shows as "* den")
RotateColumns_aliased(m, i, j, a) ==
  LET Entry(r, c) ==
        IF c = i + 1
          THEN (m.num[r][i + 1] * Cos(a) - m.num[r][j + 1] * Sin(a)) * TrigDen(a)
        ELSE IF c = j + 1
          THEN (m.num[r][i + 1] * Cos(a) - m.num[r][j + 1] * Sin(a)) * Sin(a)
               + m.num[r][j + 1] * Cos(a) * TrigDen(a)
        ELSE m.num[r][c] * TrigDen(a) * TrigDen(a)
  IN [num |-> Array8x8(Entry), den |-> m.den * TrigDen(a) * TrigDen(a)]
\* (the mutant: oldI and oldJ taken from the identity the pass started with)
RotateColumns_fromIdentity(m, i, j, a) ==
  LET Entry(r, c) ==
        IF c = i + 1
          THEN (IdentityNum[r][i + 1] * Cos(a) - IdentityNum[r][j + 1] * Sin(a)) * m.den
        ELSE IF c = j + 1
          THEN (IdentityNum[r][i + 1] * Sin(a) + IdentityNum[r][j + 1] * Cos(a)) * m.den
        ELSE m.num[r][c] * TrigDen(a)
  IN [num |-> Array8x8(Entry), den |-> m.den * TrigDen(a)]
RotateColumns(m, i, j, a) ==
  LET Entry(r, c) ==
        IF c = i + 1 THEN m.num[r][i + 1] * Cos(a) - m.num[r][j + 1] * Sin(a)
        ELSE IF c = j + 1 THEN m.num[r][i + 1] * Sin(a) + m.num[r][j + 1] * Cos(a)
        ELSE m.num[r][c] * TrigDen(a)
  IN [num |-> Array8x8(Entry), den |-> m.den * TrigDen(a)]

\* part_002:62 idx < angles.length
PlaneGiven(as, n) == n <= Len(as)

\* part_002:61-76 planes.forEach, from plane n on
RECURSIVE PlanesLoop(_, _, _)
PlanesLoop(as, n, m) ==
  IF n > Len(Planes8D) THEN m
  ELSE PlanesLoop(as, n + 1,
         IF PlaneGiven(as, n)
         THEN RotateColumns(m, Planes8D[n][1], Planes8D[n][2], as[n])
         ELSE m)

\* part_002:43-79 createRotationMatrix8D
CreateRotationMatrix8D(as) == PlanesLoop(as, 1, IdentityMatrix)

\* E8Visualization2D.tsx:72-76 applyRotation: numerators over matrix.den
\* (the mutant: rotationMatrix[j][i])
ApplyRotation_transposed(point, m) ==
  LET Entry(i) == LET Term(j) == point[j] * m.num[j][i] IN SumAxes(Term)
  IN Array8(Entry)
ApplyRotation(point, m) ==
  LET Entry(i) == LET Term(j) == point[j] * m.num[i][j] IN SumAxes(Term)
  IN Array8(Entry)

\* part_002:82-86 applyRotation8D: numerators over matrix.den
\* (the mutant: reduce without its initial value 0 starts from coords[0])
ApplyRotation8D_noInitial(coords, m) ==
  LET Entry(i) ==
        coords[1] * m.den + coords[2] * m.num[2][i] + coords[3] * m.num[3][i]
        + coords[4] * m.num[4][i] + coords[5] * m.num[5][i]
        + coords[6] * m.num[6][i] + coords[7] * m.num[7][i]
        + coords[8] * m.num[8][i]
  IN Array8(Entry)
ApplyRotation8D(coords, m) ==
  LET Entry(i) == LET Term(j) == coords[j] * m.num[j][i] IN SumAxes(Term)
  IN Array8(Entry)

----------------------------------------------------------------------------
(* The rotation builders as functions of their argument *)

\* the most entries of an angle sequence that are nonzero
MaxNonzero == 2

\* the nonzero angles drawn: a quarter turn (cos 0, sin 1) and a half turn
\* plus Tilt (cos -3/5, sin -4/5)
NonzeroAngles == {[q |-> 1, k |-> 0], [q |-> 2, k |-> 1]}

\* a slot is unused, or places one nonzero angle at one position
Slots(n) == {<<0, ZeroAngle>>} \cup ((1 .. n) \X NonzeroAngles)

\* the unused slots come first, the used ones at increasing positions
SlotsOrdered(t) ==
  \A i \in 1 .. Len(t) - 1 : t[i][1] = 0 \/ t[i][1] < t[i + 1][1]

\* the angle sequence of length n with the angles of the slots placed
Placed(n, t) ==
  [p \in 1 .. n |->
     IF \E i \in 1 .. Len(t) : t[i][1] = p
     THEN t[CHOOSE i \in 1 .. Len(t) : t[i][1] = p][2]
     ELSE ZeroAngle]

\* the angle sequences of length n with at most m nonzero entries
AngleSeqs(n, m) ==
  {Placed(n, t) : t \in {u \in [1 .. m -> Slots(n)] : SlotsOrdered(u)}}

AngleSets(n) == AngleSeqs(n, MaxNonzero)

InitRot ==
  /\ pc = "call"
  /\ \/ callee = "createRotationMatrix" /\ angles \in AngleSets(Len(AxisPairs))
     \/ callee = "createRotationMatrix8D" /\ angles \in AngleSets(Len(Planes8D))
  /\ matrix = <<>>
  /\ GenIdle /\ e8System = <<>> /\ ProjIdle /\ FrameIdle /\ ViewIdle

\* the 2D view's builder called and returned
CallCreateRotationMatrix ==
  /\ pc = "call"
  /\ callee = "createRotationMatrix"
  /\ matrix' = CreateRotationMatrix(angles)
  /\ pc' = "returned"
  /\ UNCHANGED <<genLocals, e8System, callee, angles, projVars, frameVars, viewVars>>

\* the 3D view's builder called and returned
CallCreateRotationMatrix8D ==
  /\ pc = "call"
  /\ callee = "createRotationMatrix8D"
  /\ matrix' = CreateRotationMatrix8D(angles)
  /\ pc' = "returned"
  /\ UNCHANGED <<genLocals, e8System, callee, angles, projVars, frameVars, viewVars>>

NextRot == CallCreateRotationMatrix \/ CallCreateRotationMatrix8D

SpecRot == InitRot /\ [][NextRot]_vars

\* the general builder alone, and the fixed-plane builder alone
InitRotGeneral == callee = "createRotationMatrix" /\ InitRot
SpecRotGeneral == InitRotGeneral /\ [][CallCreateRotationMatrix]_vars
InitRot8D == callee = "createRotationMatrix8D" /\ InitRot
SpecRot8D == InitRot8D /\ [][CallCreateRotationMatrix8D]_vars

AllZero(as) == \A n \in 1 .. Len(as) : as[n] = ZeroAngle

\* entry (r, c) of transpose(m) * m, over m.den * m.den
GramEntry(m, r, c) == LET Term(k) == m.num[k][r] * m.num[k][c] IN SumAxes(Term)

\* C7: a rotation builder (general 28-plane or fixed 8-plane) called with
\* an all-zero angle set returns exactly the 8x8 identity matrix.
C7_ZeroIsIdentity ==
  (pc = "returned" /\ callee \in {"createRotationMatrix", "createRotationMatrix8D"}
     /\ AllZero(angles)) =>
    /\ matrix.den = 1
    /\ \A r, c \in Rows : matrix.num[r][c] = IF r = c THEN 1 ELSE 0

C7_Witness ==
  /\ pc = "returned"
  /\ callee = "createRotationMatrix8D"
  /\ Len(angles) = 8
  /\ AllZero(angles)
  /\ matrix.num[1][1] = matrix.den

\* C8: for every angle set drawn, the matrix M a rotation builder returns
\* is orthogonal: every entry of transpose(M) * M equals that of the
\* identity (entries are held over M.den, so the identity is den * den).
C8_Orthogonal ==
  (pc = "returned" /\ callee \in {"createRotationMatrix", "createRotationMatrix8D"}) =>
    \A r, c \in Rows :
      GramEntry(matrix, r, c) = IF r = c THEN matrix.den * matrix.den ELSE 0

\* two rotations that share axis 0, one of them not a quarter turn
C8_Witness ==
  /\ pc = "returned"
  /\ callee = "createRotationMatrix"
  /\ angles[1] = [q |-> 2, k |-> 1]
  /\ angles[2] = [q |-> 1, k |-> 0]
  /\ matrix.den = 5
  /\ matrix.num[3][2] # 0

----------------------------------------------------------------------------
(* The order of composition of the general builder *)

\* the pairs (i, j) with i < j that come before the pair p when i ascends
\* and, for equal i, j ascends
PairsBefore(p) ==
  {q \in Axes \X Axes :
     /\ q[1] < q[2]
     /\ q[1] < p[1] \/ (q[1] = p[1] /\ q[2] < p[2])}

\* the pair that k pairs come before (k is the zero-based angle index)
PairOfIndex(k) ==
  CHOOSE p \in Axes \X Axes : p[1] < p[2] /\ Cardinality(PairsBefore(p)) = k

\* the pairs of the angle indices k, k + 1, .., 27 in a sequence
RECURSIVE PairsFromIndex(_)
PairsFromIndex(k) ==
  IF k >= 28 THEN <<>> ELSE <<PairOfIndex(k)>> \o PairsFromIndex(k + 1)

PairsByIndex == PairsFromIndex(0)

\* the elementary rotation E of the plane (i, j): cos at [i][i] and [j][j],
\* -sin at [i][j], sin at [j][i], the identity elsewhere
Elementary(p, a) ==
  LET i == p[1] + 1
      j == p[2] + 1
      Entry(r, c) ==
        IF <<r, c>> = <<i, i>> \/ <<r, c>> = <<j, j>> THEN Cos(a)
        ELSE IF <<r, c>> = <<i, j>> THEN -Sin(a)
        ELSE IF <<r, c>> = <<j, i>> THEN Sin(a)
        ELSE IF r = c THEN TrigDen(a)
        ELSE 0
  IN [num |-> Array8x8(Entry), den |-> TrigDen(a)]

\* the matrix product a * b
MatrixProduct(a, b) ==
  LET Entry(r, c) == LET Term(k) == a.num[r][k] * b.num[k][c] IN SumAxes(Term)
  IN [num |-> Array8x8(Entry), den |-> a.den * b.den]

\* E_last * ... * E_first * I over the nonzero angles among the first n
RECURSIVE OrderedProduct(_, _)
OrderedProduct(as, n) ==
  IF n = 0 THEN [num |-> IdentityNum, den |-> 1]
  ELSE IF as[n] # ZeroAngle
       THEN MatrixProduct(Elementary(PairsByIndex[n], as[n]),
                          OrderedProduct(as, n - 1))
       ELSE OrderedProduct(as, n - 1)

\* the one-based indices of the nonzero angles
NonzeroIndices(as) == {n \in 1 .. Len(as) : as[n] # ZeroAngle}

\* two different planes with an axis in common
ShareAxis(p, q) == p # q /\ {p[1], p[2]} \cap {q[1], q[2]} # {}

\* the product of the two elementary rotations of as in the other order,
\* E_first * E_last * I (as has exactly two nonzero angles)
SwappedProduct(as) ==
  LET first == CHOOSE n \in NonzeroIndices(as) : \A m \in NonzeroIndices(as) : n <= m
      last == CHOOSE n \in NonzeroIndices(as) : \A m \in NonzeroIndices(as) : n >= m
  IN MatrixProduct(Elementary(PairsByIndex[first], as[first]),
       MatrixProduct(Elementary(PairsByIndex[last], as[last]),
                     [num |-> IdentityNum, den |-> 1]))

\* C15: createRotationMatrix takes angle index k for the k-th axis pair of
\* the enumeration i = 0..6, j = i+1..7 (zero angles advance the index too)
\* and returns E_last * ... * E_first * I over the nonzero angles in that
\* order; with two nonzero angles whose planes share an axis, the product
\* in the other order is a different matrix.
C15_OrderedComposition ==
  (pc = "returned" /\ callee = "createRotationMatrix") =>
    /\ \A n \in 1 .. Len(AxisPairs) : AxisPairs[n] = PairsByIndex[n]
    /\ matrix = OrderedProduct(angles, Len(angles))
    /\ (/\ Cardinality(NonzeroIndices(angles)) = 2
        /\ \E n, m \in NonzeroIndices(angles) :
             ShareAxis(PairsByIndex[n], PairsByIndex[m]))
       => SwappedProduct(angles) # matrix

\* a rotation of the plane (0,1) followed by one of the plane (1,2)
C15_Witness ==
  /\ pc = "returned"
  /\ callee = "createRotationMatrix"
  /\ NonzeroIndices(angles) = {1, 8}
  /\ AxisPairs[8] = <<1, 2>>
  /\ matrix.num[3][1] # 0
  /\ SwappedProduct(angles).num[3][1] = 0

----------------------------------------------------------------------------
(* The column updates of the fixed-plane builder *)

\* the transpose of a matrix
Transpose(m) ==
  LET Entry(r, c) == m.num[c][r] IN [num |-> Array8x8(Entry), den |-> m.den]

\* the matrix of the column update of the plane p: new column i is
\* column i * cos - column j * sin, new column j is column i * sin +
\* column j * cos; a matrix M so updated is M * ColumnRotation(p, a)
ColumnRotation(p, a) == Transpose(Elementary(p, a))

\* every plane's elementary rotation composed with the running result,
\* for the first n planes
RECURSIVE RunningComposition(_, _)
RunningComposition(as, n) ==
  IF n = 0 THEN [num |-> IdentityNum, den |-> 1]
  ELSE MatrixProduct(RunningComposition(as, n - 1),
                     ColumnRotation(Planes8D[n], as[n]))

\* the pass with every plane's update computed from the values the
\* accumulator had before any plane of the pass was applied
RECURSIVE InitialValuesLoop(_, _, _)
InitialValuesLoop(as, n, m) ==
  IF n > Len(Planes8D) THEN m
  ELSE InitialValuesLoop(as, n + 1,
         RotateColumns_fromIdentity(m, Planes8D[n][1], Planes8D[n][2], as[n]))

\* a plane with a nonzero angle is followed in the pass by a plane that
\* has an axis in common with it
RotatedAxisMetAgain(as) ==
  \E n \in NonzeroIndices(as) : \E m \in (n + 1) .. Len(Planes8D) :
    ShareAxis(Planes8D[n], Planes8D[m])

\* C16 as stated: every plane's column update of createRotationMatrix8D
\* reads the accumulator values from before any plane of the pass was
\* applied, and the matrix so obtained is the composition of every plane's
\* elementary rotation with the running result.
C16_ReadsInitialValues ==
  (pc = "returned" /\ callee = "createRotationMatrix8D"
     /\ Len(angles) = Len(Planes8D)) =>
    /\ matrix = InitialValuesLoop(angles, 1, IdentityMatrix)
    /\ matrix = RunningComposition(angles, Len(Planes8D))

\* C16 as amended: every plane's column update reads the accumulator as
\* the planes before it left it, so that the matrix returned is the
\* composition of every plane's elementary rotation with the running
\* result; it is the matrix of the updates computed from the values before
\* the pass exactly when no plane with a nonzero angle is followed by a
\* plane that shares an axis with it.
C16_ReadsRunningValues ==
  (pc = "returned" /\ callee = "createRotationMatrix8D"
     /\ Len(angles) = Len(Planes8D)) =>
    /\ matrix = RunningComposition(angles, Len(Planes8D))
    /\ (matrix = InitialValuesLoop(angles, 1, IdentityMatrix))
         <=> ~RotatedAxisMetAgain(angles)

\* the planes (0,1) and (0,4) both rotated
C16_Witness ==
  /\ pc = "returned"
  /\ callee = "createRotationMatrix8D"
  /\ NonzeroIndices(angles) = {1, 5}
  /\ matrix.num[2][5] # 0
  /\ InitialValuesLoop(angles, 1, IdentityMatrix).num[2][5] = 0

----------------------------------------------------------------------------
(* The two conventions on one list of planes *)

\* the loop body of createRotationMatrix (E8Visualization2D.tsx:33-50) run
\* over the planes of a list instead of over all pairs, from plane n on
RECURSIVE LeftComposition(_, _, _, _)
LeftComposition(planes, as, n, current) ==
  IF n > Len(planes) THEN current
  ELSE LeftComposition(planes, as, n + 1,
         IF PlaneActive(as, n)
         THEN MultiplyMatrices(PlaneMatrix(planes[n][1], planes[n][2], as[n]),
                               current)
         ELSE current)

\* the general composition over the planes of the fixed-plane builder
GeneralOnPlanes8D(as) == LeftComposition(Planes8D, as, 1, IdentityMatrix)

\* C18: for the planes of the fixed-plane builder and the same angles,
\* the fixed-plane builder's matrix is the transpose of the matrix of the
\* general left-multiplying composition, and each matrix with its own
\* point-apply convention (matrix[j][i] for the fixed-plane one,
\* matrix[i][j] for the general one) gives the same rotated 8-vector for
\* every root.
C18_TransposedConventions ==
  (pc = "returned" /\ callee = "createRotationMatrix8D"
     /\ Len(angles) = Len(Planes8D)) =>
    LET general == GeneralOnPlanes8D(angles) IN
      /\ matrix.den = general.den
      /\ \A r, c \in Rows : matrix.num[r][c] = general.num[c][r]
      /\ \A p \in RootVectors :
           ApplyRotation8D(p, matrix) = ApplyRotation(p, general)

\* a matrix that is not its own transpose
C18_Witness ==
  /\ pc = "returned"
  /\ callee = "createRotationMatrix8D"
  /\ Len(angles) = Len(Planes8D)
  /\ angles[1] # ZeroAngle
  /\ angles[6] # ZeroAngle
  /\ matrix.num[1][2] # matrix.num[2][1]
  /\ ApplyRotation8D(AllPlusHalf, matrix) # AllPlusHalf

----------------------------------------------------------------------------
(* The rotation builders called with an angle sequence of another length   *)
(* than their plane count *)

\* the number of planes a builder goes through: 28 pairs, 8 planes
ExpectedAngles(c) ==
  IF c = "createRotationMatrix" THEN Len(AxisPairs) ELSE Len(Planes8D)

\* the lengths drawn: none, one, one short of the plane count, one beyond
MismatchedLengths(n) == {0, 1, n - 1, n + 1}

InitRotLen ==
  /\ pc = "call"
  /\ callee \in {"createRotationMatrix", "createRotationMatrix8D"}
  /\ \E n \in MismatchedLengths(ExpectedAngles(callee)) : angles \in AngleSets(n)
  /\ matrix = <<>>
  /\ GenIdle /\ e8System = <<>> /\ ProjIdle /\ FrameIdle /\ ViewIdle

SpecRotLen == InitRotLen /\ [][NextRot]_vars

\* the sequence cut to n entries, or filled up to n entries with 0
PadOrTruncate(as, n) ==
  [k \in 1 .. n |-> IF k <= Len(as) THEN as[k] ELSE ZeroAngle]

\* C11 as stated: a builder called with an angle sequence whose length is
\* not its plane count (28, 8) is rejected and returns no matrix.
C11_MismatchRejected ==
  (pc = "returned" /\ Len(angles) # ExpectedAngles(callee)) => matrix = <<>>

\* what the builders do with such a sequence: they return the matrix of
\* the sequence cut or zero-filled to the plane count
C11_Witness ==
  /\ pc = "returned"
  /\ callee = "createRotationMatrix8D"
  /\ Len(angles) = Len(Planes8D) - 1
  /\ angles[1] # ZeroAngle
  /\ matrix # <<>>
  /\ matrix = CreateRotationMatrix8D(PadOrTruncate(angles, Len(Planes8D)))

----------------------------------------------------------------------------
(* Projections, e8.ts:83-117.  An entry p of a projection matrix is held   *)
(* as the integer p * ProjUnit (tenths: 1 is 10, 0.5 is 5, 0.3 is 3), so   *)
(* a projected coordinate is held over Unit * ProjUnit.                    *)

ProjUnit == 10

\* e8.ts:83 the default projectionMatrix of projectTo2D
DefaultProjection2D ==
  << <<10, 0>>, <<0, 10>>, <<5, 5>>, <<5, -5>>,
     <<0, 0>>, <<0, 0>>, <<0, 0>>, <<0, 0>> >>

\* e8.ts:107 the default projectionMatrix of projectTo3D
DefaultProjection3D ==
  << <<10, 0, 0>>, <<0, 10, 0>>, <<0, 0, 10>>, <<5, 5, 0>>,
     <<5, 0, 5>>, <<0, 5, 5>>, <<0, 0, 0>>, <<0, 0, 0>> >>

\* part_002:182-191 the projectionMatrix of the 3D view
ViewProjection3D ==
  << <<10, 0, 0>>, <<0, 10, 0>>, <<0, 0, 10>>, <<5, 5, 0>>,
     <<5, 0, 5>>, <<0, 5, 5>>, <<3, 3, 3>>, <<-3, 3, -3>> >>

\* e8.ts:90 const projected = [0, 0]
Accumulator2D_ones == <<1, 1>>
Accumulator2D == <<0, 0>>

\* e8.ts:109 const projected = [0, 0, 0]
Accumulator3D_ones == <<1, 1, 1>>
Accumulator3D == <<0, 0, 0>>

\* e8.ts:91-95 the loops of projectTo2D on one coordinate array
ProjectCoords2D(coords, pm) ==
  [i \in 1 .. 2 |->
     LET Term(j) == coords[j] * pm[j][i] IN Accumulator2D[i] + SumAxes(Term)]

\* e8.ts:85-87 the coordinate arrays of the argument: the arrays themselves
\* (isArrays, Array.isArray(roots[0])) or the roots' coordinates
CoordinatesOf(rs, isArrays) ==
  IF isArrays THEN rs ELSE [n \in 1 .. Len(rs) |-> rs[n].coordinates]

\* e8.ts:83-98 projectTo2D
ProjectTo2D(rs, isArrays, pm) ==
  [n \in 1 .. Len(rs) |-> ProjectCoords2D(CoordinatesOf(rs, isArrays)[n], pm)]

\* e8.ts:109-115 the loops of projectTo3D on one root
ProjectRoot3D(root, pm) ==
  [i \in 1 .. 3 |->
     LET Term(j) == root.coordinates[j] * pm[j][i]
     IN Accumulator3D[i] + SumAxes(Term)]

\* e8.ts:107-117 projectTo3D
ProjectTo3D(rs, pm) == [n \in 1 .. Len(rs) |-> ProjectRoot3D(rs[n], pm)]

----------------------------------------------------------------------------
(* The projections as functions of their arguments *)

\* the largest entry (in halves) of the second vector given to a projection
MaxCoord == 2

\* the vectors with one nonzero entry of at most MaxCoord halves, and zero
AxisVectors ==
  {[ZeroVector EXCEPT ![k] = c] : k \in 1 .. Dim, c \in (-MaxCoord) .. MaxCoord}

\* a matrix of 8 rows of n entries that are all different and nonzero
DenseProjection(n) == [j \in 1 .. Dim |-> [d \in 1 .. n |-> (j - 1) * n + d]]

\* a + b
VectorSum(a, b) == [k \in 1 .. Len(a) |-> a[k] + b[k]]

AsRoot(v) == [coordinates |-> v, index |-> 0]

InitProj ==
  /\ pc = "call"
  /\ pointA \in RootVectors
  /\ pointB \in AxisVectors
  /\ \/ /\ callee = "projectTo2D"
        /\ projection \in {DefaultProjection2D, DenseProjection(2)}
     \/ /\ callee = "projectTo3D"
        /\ projection \in {DefaultProjection3D, ViewProjection3D, DenseProjection(3)}
  /\ projected = <<>>
  /\ GenIdle /\ e8System = <<>> /\ angles = <<>> /\ matrix = <<>> /\ FrameIdle
  /\ ViewIdle

\* projectTo2D called on [a], on [b] and on [a + b] (coordinate arrays)
CallProjectTo2D ==
  /\ pc = "call"
  /\ callee = "projectTo2D"
  /\ projected' =
       [a |-> ProjectTo2D(<<pointA>>, TRUE, projection)[1],
        b |-> ProjectTo2D(<<pointB>>, TRUE, projection)[1],
        sum |-> ProjectTo2D(<<VectorSum(pointA, pointB)>>, TRUE, projection)[1]]
  /\ pc' = "returned"
  /\ UNCHANGED <<genLocals, e8System, rotVars, pointA, pointB, projection, frameVars,
                 viewVars>>

\* projectTo3D called on [a], on [b] and on [a + b] (root vectors)
CallProjectTo3D ==
  /\ pc = "call"
  /\ callee = "projectTo3D"
  /\ projected' =
       [a |-> ProjectTo3D(<<AsRoot(pointA)>>, projection)[1],
        b |-> ProjectTo3D(<<AsRoot(pointB)>>, projection)[1],
        sum |-> ProjectTo3D(<<AsRoot(VectorSum(pointA, pointB))>>, projection)[1]]
  /\ pc' = "returned"
  /\ UNCHANGED <<genLocals, e8System, rotVars, pointA, pointB, projection, frameVars,
                 viewVars>>

NextProj == CallProjectTo2D \/ CallProjectTo3D

SpecProj == InitProj /\ [][NextProj]_vars

\* C9: projection is linear: project([a]) + project([b]) equals
\* project([a + b]) in every output component, for projectTo2D and for
\* projectTo3D, for every a, b and projection matrix drawn.
C9_ProjectionLinear ==
  (pc = "returned" /\ callee \in {"projectTo2D", "projectTo3D"}) =>
    /\ Len(projected.sum) = Len(projection[1])
    /\ \A d \in 1 .. Len(projected.sum) :
         projected.a[d] + projected.b[d] = projected.sum[d]

C9_Witness ==
  /\ pc = "returned"
  /\ callee = "projectTo3D"
  /\ projection = ViewProjection3D
  /\ pointA[8] # 0
  /\ pointB[7] # 0
  /\ projected.a[1] # 0
  /\ projected.b[1] # 0
  /\ projected.sum[1] # projected.a[1]

----------------------------------------------------------------------------
(* One frame of the 3D view on the generated roots: part_002:194 projects  *)
(* the roots directly, part_002:325-335 rotates every root with the matrix *)
(* of the combined angles and projects it.                                 *)

\* part_002:329-334 the projection loops of animate on one rotated point
ProjectRotated(rotated, pm) ==
  [d \in 1 .. 3 |-> LET Term(j) == rotated[j] * pm[j][d] IN SumAxes(Term)]

\* part_002:327-335 e8System.roots.forEach: the projected point of every
\* root, held over rotMatrix.den
FramePoints(rs, rotMatrix, pm) ==
  [points |-> [n \in 1 .. Len(rs) |->
                 ProjectRotated(ApplyRotation8D(rs[n].coordinates, rotMatrix), pm)],
   den |-> rotMatrix.den]

InitFrame ==
  /\ pc = "frame"
  /\ callee = "animate"
  /\ e8System = GenerateE8RootSystem
  /\ angles \in AngleSets(Len(Planes8D))
  /\ projection \in {DefaultProjection3D, ViewProjection3D}
  /\ matrix = <<>>
  /\ direct = <<>>
  /\ framed = <<>>
  /\ GenIdle /\ pointA = <<>> /\ pointB = <<>> /\ projected = <<>>
  /\ ViewIdle

\* part_002:194 / e8.ts:107 projectTo3D(e8System.roots, projectionMatrix)
ProjectDirect ==
  /\ pc = "frame"
  /\ direct = <<>>
  /\ direct' = ProjectTo3D(e8System.roots, projection)
  /\ UNCHANGED <<genVars, rotVars, projVars, framed, viewVars>>

\* part_002:325-335 rotMatrix = createRotationMatrix8D(combinedAngles) and
\* the rotation and projection of every root
RotateAndProject ==
  /\ pc = "frame"
  /\ framed = <<>>
  /\ LET rotMatrix == CreateRotationMatrix8D(angles) IN
       /\ matrix' = rotMatrix
       /\ framed' = FramePoints(e8System.roots, rotMatrix, projection)
  /\ UNCHANGED <<genVars, callee, angles, projVars, direct, viewVars>>

NextFrame == ProjectDirect \/ RotateAndProject

SpecFrame == InitFrame /\ [][NextFrame]_vars

\* C10: with the rotation built from all-zero angles applied to every
\* generated root, projecting with the default 8x3 matrix gives for every
\* root the same 3-vector as projecting the unrotated root with that matrix.
C10_ZeroRotationRoundTrip ==
  (direct # <<>> /\ framed # <<>> /\ AllZero(angles)
     /\ projection = DefaultProjection3D) =>
    /\ framed.den = 1
    /\ Len(framed.points) = Len(e8System.roots)
    /\ \A n \in 1 .. Len(e8System.roots) : framed.points[n] = direct[n]

C10_Witness ==
  /\ direct # <<>>
  /\ framed # <<>>
  /\ AllZero(angles)
  /\ projection = DefaultProjection3D
  /\ Len(direct) = 240
  /\ direct[240] # <<0, 0, 0>>

----------------------------------------------------------------------------
(* The angles of the two views.  A slider gives min + n * 0.01 for a whole *)
(* n (E8Visualization2D.tsx:257-264 min 0, part_002:524-529 min -PI), and  *)
(* the auto-rotation of the 3D view adds multiples of 0.0001.  An angle of *)
(* a view is [q, k, t]: q quarter turns plus k times Tilt plus t / 10000   *)
(* radians.  Cosine and sine are rational only where t = 0.  Of the values *)
(* a view can hold only 0 is such a value: the matrix of any other angle   *)
(* set is held as [of |-> angles], what is computed with it as             *)
(* [rotatedBy |-> angles].                                                 *)

\* the angle 0, as useState(Array(n).fill(0)) and the Reset buttons give it
ZeroRadians == [q |-> 0, k |-> 0, t |-> 0]

\* the angles of a view that are multiples of a quarter turn and of Tilt
IsExact(as) == \A n \in 1 .. Len(as) : as[n].t = 0
ExactAngles(as) == [n \in 1 .. Len(as) |-> [q |-> as[n].q, k |-> as[n].k]]

----------------------------------------------------------------------------
(* The 2D view, E8Visualization2D.tsx.  Its state is rotationAngles (held  *)
(* in angles), showLines and displayedRoots.  After every change of state  *)
(* React runs the effect of lines 78-186 again, which generates the roots, *)
(* takes the first displayedRoots of them, rotates, projects and draws     *)
(* them: every handler below includes that run.  The circles drawn are     *)
(* held in framed; the line segments are drawn from the same points when   *)
(* showLines holds.                                                        *)

\* E8Visualization2D.tsx:15 useState(Array(28).fill(0))
InitialRotationAngles == [n \in 1 .. Len(AxisPairs) |-> ZeroRadians]

\* E8Visualization2D.tsx:17 useState(120)
InitialDisplayedRoots == 120

\* E8Visualization2D.tsx:228-231 the options of the "Display roots" select
DisplayOptions == {60, 120, 180, 248}

\* E8Visualization2D.tsx:85 e8System.roots.slice(0, displayedRoots)
Slice(rs, n) == SubSeq(rs, 1, IF n < Len(rs) THEN n ELSE Len(rs))

\* E8Visualization2D.tsx:88 createRotationMatrix(rotationAngles)
Matrix2DOf(as) ==
  IF IsExact(as) THEN CreateRotationMatrix(ExactAngles(as)) ELSE [of |-> as]

\* E8Visualization2D.tsx:72-76 applyRotation(point, matrix) with the matrix
\* of the view: the rotated coordinates, or the point and the angles it is
\* rotated by
RotatedBy(point, m) ==
  IF "num" \in DOMAIN m THEN ApplyRotation(point, m) ELSE <<point, m.of>>

\* E8Visualization2D.tsx:91-94 rootsToDisplay.map(applyRotation): the input
\* after the call (a new array is returned, the coordinates are only read)
CoordsAfterApplyRotation_inPlace(point, m) == RotatedBy(point, m)
CoordsAfterApplyRotation(point, m) == point

\* E8Visualization2D.tsx:91-94 the rotated coordinate arrays
RotatedPoints(rs, m) ==
  [n \in 1 .. Len(rs) |-> ApplyRotation(rs[n].coordinates, m)]

\* E8Visualization2D.tsx:85,91-97 the projected points of the first n roots
\* rotated with rotationMatrix, held over rotationMatrix.den
DrawnWith(rs, rotationMatrix, n) ==
  [points |-> ProjectTo2D(RotatedPoints(Slice(rs, n), rotationMatrix),
                          TRUE, DefaultProjection2D),
   den |-> rotationMatrix.den]

\* E8Visualization2D.tsx:85-97 the projected points of one run of the
\* effect
DrawnPoints(rs, as, n) == DrawnWith(rs, CreateRotationMatrix(as), n)

\* E8Visualization2D.tsx:85-97 the points the view draws with its angles
DrawnOf(rs, as, n) ==
  IF IsExact(as) THEN DrawnPoints(rs, ExactAngles(as), n)
  ELSE [rotatedBy |-> as, count |-> Len(Slice(rs, n))]

\* E8Visualization2D.tsx:100-107,122-135 the number of points drawn
DrawnCount(f) == IF "points" \in DOMAIN f THEN Len(f.points) ELSE f.count

\* E8Visualization2D.tsx:82-94 the root system the effect holds after its
\* run: generated anew, read by slice, applyRotation and projectTo2D
SystemAfterEffect2D(as) ==
  LET system == GenerateE8RootSystem
      rotationMatrix == Matrix2DOf(as) IN
    [system EXCEPT !.roots =
       [n \in 1 .. Len(system.roots) |->
          [system.roots[n] EXCEPT !.coordinates =
             CoordsAfterApplyRotation(system.roots[n].coordinates,
                                      rotationMatrix)]]]

\* E8Visualization2D.tsx:78-186 the effect, run with the state given
Effect2D(as, n) ==
  /\ e8System' = SystemAfterEffect2D(as)
  /\ matrix' = Matrix2DOf(as)
  /\ framed' = DrawnOf(GenerateE8RootSystem.roots, as, n)

\* E8Visualization2D.tsx:257-264 min="0" step="0.01": the value of a slider
\* moved to its n-th step, n * 0.01
SliderValue2D(n) == [q |-> 0, k |-> 0, t |-> 100 * n]

\* the sliders moved and the steps they are moved to (0, 2.49 and 2.5)
SliderIndices2D == {0, 3, 22, 27}
SliderSteps2D == {0, 249, 250}

\* the 2D view mounted and drawn for the first time
InitView2D ==
  /\ callee = "E8Visualization2D"
  /\ pc = "idle"
  /\ angles = InitialRotationAngles
  /\ showLines = TRUE
  /\ displayedRoots = InitialDisplayedRoots
  /\ e8System = SystemAfterEffect2D(InitialRotationAngles)
  /\ matrix = Matrix2DOf(InitialRotationAngles)
  /\ projection = DefaultProjection2D
  /\ framed = DrawnOf(GenerateE8RootSystem.roots, InitialRotationAngles,
                      InitialDisplayedRoots)
  /\ GenIdle /\ pointA = <<>> /\ pointB = <<>> /\ projected = <<>>
  /\ direct = <<>> /\ View3DIdle

\* E8Visualization2D.tsx:188-192 handleRotationChange(index, value)
HandleRotationChange ==
  /\ callee = "E8Visualization2D"
  /\ \E index \in SliderIndices2D, step \in SliderSteps2D :
       LET newAngles == [angles EXCEPT ![index + 1] = SliderValue2D(step)] IN
         /\ angles' = newAngles
         /\ Effect2D(newAngles, displayedRoots)
  /\ UNCHANGED <<pc, genLocals, callee, projVars, direct, viewVars>>

\* E8Visualization2D.tsx:194-196 resetAllRotations
ResetAllRotations ==
  /\ callee = "E8Visualization2D"
  /\ angles' = [n \in 1 .. 28 |-> ZeroRadians]
  /\ Effect2D(angles', displayedRoots)
  /\ UNCHANGED <<pc, genLocals, callee, projVars, direct, viewVars>>

\* E8Visualization2D.tsx:213-218 the "Show connections" checkbox
SetShowLines ==
  /\ callee = "E8Visualization2D"
  /\ \E checked \in BOOLEAN : showLines' = checked
  /\ Effect2D(angles, displayedRoots)
  /\ UNCHANGED <<pc, genLocals, callee, angles, projVars, direct,
                 displayedRoots, view3DVars>>

\* E8Visualization2D.tsx:223-227 the "Display roots" select
SetDisplayedRoots ==
  /\ callee = "E8Visualization2D"
  /\ \E n \in DisplayOptions :
       /\ displayedRoots' = n
       /\ Effect2D(angles, n)
  /\ UNCHANGED <<pc, genLocals, callee, angles, projVars, direct,
                 showLines, view3DVars>>

NextView2D ==
  HandleRotationChange \/ ResetAllRotations \/ SetShowLines \/ SetDisplayedRoots

SpecView2D == InitView2D /\ [][NextView2D]_vars

\* the 2D view with its canvas drawn
Drawn2D == callee = "E8Visualization2D" /\ framed # <<>>

\* C17 as claimed: for every selectable value n of the "Display roots"
\* control (60, 120, 180, 248) the 2D view rotates, projects and draws
\* exactly n points, the number its caption and its options state.
C17_DrawsSelectedCount ==
  Drawn2D => DrawnCount(framed) = displayedRoots

C17_Witness ==
  /\ Drawn2D
  /\ displayedRoots = 248
  /\ Len(e8System.roots) = 240
  /\ "points" \in DOMAIN framed
  /\ Len(framed.points) = 240

----------------------------------------------------------------------------
(* One run of the effect of the 2D view, E8Visualization2D.tsx:78-97, on   *)
(* angles whose cosine and sine are rational: the roots are generated, the *)
(* rotation matrix is built, and the first displayedRoots roots are        *)
(* rotated and projected.                                                  *)

\* the planes given an angle (indices 0, 3, 22, 27) and the angles given
DrawPlanes == {1, 4, 23, 28}
DrawAngles == {ZeroAngle} \cup NonzeroAngles

\* the angle sets of the runs
DrawAngleSets ==
  {[n \in 1 .. Len(AxisPairs) |-> IF n \in DrawPlanes THEN f[n] ELSE ZeroAngle] :
     f \in [DrawPlanes -> DrawAngles]}

InitDraw2D ==
  /\ callee = "useEffect"
  /\ pc = "effect"
  /\ angles \in DrawAngleSets
  /\ displayedRoots \in DisplayOptions
  /\ showLines = TRUE
  /\ e8System = GenerateE8RootSystem
  /\ projection = DefaultProjection2D
  /\ matrix = <<>>
  /\ framed = <<>>
  /\ GenIdle /\ pointA = <<>> /\ pointB = <<>> /\ projected = <<>>
  /\ direct = <<>> /\ View3DIdle

\* E8Visualization2D.tsx:88 rotationMatrix = createRotationMatrix(rotationAngles)
BuildRotation2D ==
  /\ callee = "useEffect"
  /\ pc = "effect"
  /\ matrix' = CreateRotationMatrix(angles)
  /\ pc' = "rotation"
  /\ UNCHANGED <<genLocals, e8System, callee, angles, projVars, frameVars,
                 viewVars>>

\* E8Visualization2D.tsx:85,91-97 slice, applyRotation of every root taken
\* and projectTo2D
DrawRoots2D ==
  /\ callee = "useEffect"
  /\ pc = "rotation"
  /\ framed' = DrawnWith(e8System.roots, matrix, displayedRoots)
  /\ pc' = "drawn"
  /\ UNCHANGED <<genLocals, e8System, rotVars, projVars, direct, viewVars>>

NextDraw2D == BuildRotation2D \/ DrawRoots2D

SpecDraw2D == InitDraw2D /\ [][NextDraw2D]_vars

\* the planes lying within axes 4..7, by their place in the enumeration
HiddenPlanes ==
  {n \in 1 .. Len(AxisPairs) : AxisPairs[n][1] >= 4 /\ AxisPairs[n][2] >= 4}

\* the angles with those of the planes within axes 4..7 put to 0
WithoutHidden(as) ==
  [n \in 1 .. Len(as) |-> IF n \in HiddenPlanes THEN ZeroAngle ELSE as[n]]

\* two point lists, each held over its own denominator, are equal
SamePoints(a, b) ==
  /\ Len(a.points) = Len(b.points)
  /\ \A n \in 1 .. Len(a.points) : \A d \in 1 .. 2 :
       a.points[n][d] * b.den = b.points[n][d] * a.den

\* the effect of the 2D view has drawn its points
EffectDrawn == callee = "useEffect" /\ pc = "drawn"

\* C19: in the 2D view the drawn points do not depend on the six angles of
\* the planes within axes 4..7 (indices 22..27: planes 4-5, 4-6, 4-7, 5-6,
\* 5-7, 6-7): the points drawn are those of the same angles with these six
\* put to 0, so angle sets differing only there draw identical points.
C19_HiddenAnglesUnseen ==
  EffectDrawn =>
    /\ HiddenPlanes = 23 .. 28
    /\ <<AxisPairs[23], AxisPairs[24], AxisPairs[25],
         AxisPairs[26], AxisPairs[27], AxisPairs[28]>>
         = << <<4, 5>>, <<4, 6>>, <<4, 7>>, <<5, 6>>, <<5, 7>>, <<6, 7>> >>
    /\ \A j \in 5 .. 8 : DefaultProjection2D[j] = <<0, 0>>
    /\ SamePoints(framed, DrawnPoints(e8System.roots, WithoutHidden(angles),
                                      displayedRoots))

C19_Witness ==
  /\ EffectDrawn
  /\ angles[4] # ZeroAngle
  /\ angles[23] # ZeroAngle
  /\ angles[28] # ZeroAngle
  /\ matrix # CreateRotationMatrix(WithoutHidden(angles))
  /\ framed.points[1] # DrawnPoints(e8System.roots,
                                    [n \in 1 .. 28 |-> ZeroAngle],
                                    displayedRoots).points[1]

----------------------------------------------------------------------------
(* The 3D view, part_002.  Its state is autoRotate, showConnections and    *)
(* manualAngles, each copied to a ref by an effect React runs before the   *)
(* handler's event ends (part_002:33-36), so a state and its ref are held  *)
(* as one variable; rotationAnglesRef holds the accumulated auto-rotation. *)
(* The accumulated angles are held in ten-thousandths of a radian, the     *)
(* manual and the combined angles as the angles of a view: the matrix of a *)
(* snapshot that is not all 0 is held as [of |-> snapshot], the positions  *)
(* computed with it as [rotatedBy |-> snapshot].                           *)
(* The line buffer is held by its vertex count and by lineIdx after the    *)
(* line update of the last frame, each as the range [least, most] that the *)
(* pairs at exactly a limit distance leave open.                           *)
(* animate runs to its end before any handler runs; it is taken in two     *)
(* steps, part_002:301-325 and part_002:327-395, with pc = "rotate"        *)
(* between them.                                                           *)

\* the auto-rotate frames taken
MaxAutoFrames == 2

\* part_002:24,39 Array(8).fill(0)
InitialManualAngles == [n \in 1 .. Len(Planes8D) |-> ZeroRadians]
InitialAccumulated == [n \in 1 .. Len(Planes8D) |-> 0]

\* part_002:315 0.002 + i * 0.0003, in ten-thousandths of a radian
AutoStep(i) == 20 + i * 3

\* part_002:313-317 the accumulated angles after the auto-rotation of a frame
\* (the mutant: the angles are accumulated whether auto-rotate is on or not)
Accumulated_always(acc, auto) ==
  [n \in 1 .. Len(acc) |-> acc[n] + AutoStep(n - 1)]
Accumulated(acc, auto) ==
  IF auto THEN [n \in 1 .. Len(acc) |-> acc[n] + AutoStep(n - 1)] ELSE acc

\* part_002:320-322 combinedAngles
CombinedAngles(acc, manual) ==
  [n \in 1 .. Len(acc) |->
     [q |-> manual[n].q, k |-> manual[n].k, t |-> acc[n] + manual[n].t]]

\* part_002:325 createRotationMatrix8D(combinedAngles)
Matrix8DOf(as) ==
  IF IsExact(as) THEN CreateRotationMatrix8D(ExactAngles(as)) ELSE [of |-> as]

\* part_002:327-335 the projected point of every root
FramePositions(rs, m, pm) ==
  IF "num" \in DOMAIN m THEN FramePoints(rs, m, pm) ELSE [rotatedBy |-> m.of]

\* part_002:247-250,376-379 dx * dx + dy * dy + dz * dz of two projected
\* points, before the scale and over the square of the points' denominator
DistSquared(p1, p2) ==
  (p1[1] - p2[1]) * (p1[1] - p2[1]) + (p1[2] - p2[2]) * (p1[2] - p2[2])
  + (p1[3] - p2[3]) * (p1[3] - p2[3])

\* part_002:197,243 scale = 2.5 = ScaleNum / ScaleDen, threshold = 1.2 * scale
ScaleNum == 5
ScaleDen == 2
ThresholdTenths == 12

\* part_002:252,381 dist < threshold && dist > 0.1 for the points' squared
\* distance d2: the scale cancels in the first comparison,
\* |p1 - p2| < 1.2, and the second is scale * |p1 - p2| > 0.1
Qualifies(d2, den) ==
  /\ d2 < (ThresholdTenths * Unit * den) * (ThresholdTenths * Unit * den)
  /\ ScaleNum * ScaleNum * d2 > (ScaleDen * Unit * den) * (ScaleDen * Unit * den)

\* the distance is exactly one of the two limits: the program compares
\* rounded values (doubles at setup, 32-bit floats of the position buffer in
\* a frame), and such a pair may fall on either side
AtLimit(d2, den) ==
  \/ d2 = (ThresholdTenths * Unit * den) * (ThresholdTenths * Unit * den)
  \/ ScaleNum * ScaleNum * d2 = (ScaleDen * Unit * den) * (ScaleDen * Unit * den)

\* part_002:245-246,363-364 the pairs i < j of the loops
PointPairs(n) == {p \in (1 .. n) \X (1 .. n) : p[1] < p[2]}

\* part_002:245-265,363-386 the number of pairs the condition holds for:
\* at least the pairs strictly within the limits, at most these and the
\* pairs at a limit
PairCounts(points, den) ==
  LET within == Cardinality({p \in PointPairs(Len(points)) :
                   Qualifies(DistSquared(points[p[1]], points[p[2]]), den)})
      limit == Cardinality({p \in PointPairs(Len(points)) :
                   AtLimit(DistSquared(points[p[1]], points[p[2]]), den)})
  IN [least |-> within, most |-> within + limit]

\* part_002:267 the vertex count of the line buffer: two vertices for each
\* pair pushed at setup
SetupLineCount ==
  LET pairs == PairCounts(ProjectTo3D(GenerateE8RootSystem.roots,
                                      ViewProjection3D), 1)
  IN [least |-> 2 * pairs.least, most |-> 2 * pairs.most]

Min(a, b) == IF a < b THEN a ELSE b

\* part_002:363-364 the guard of both loops
LoopLimit(count) == count

\* part_002:361-386 lineIdx after the loops: one more for every qualifying
\* pair while lineIdx < linePositionAttr.count
LineIdxAfter(count, positions) ==
  IF "points" \in DOMAIN positions
  THEN LET pairs == PairCounts(positions.points, positions.den)
       IN [least |-> Min(pairs.least, LoopLimit(count.least)),
           most |-> Min(pairs.most, LoopLimit(count.most))]
  ELSE [rotatedBy |-> positions.rotatedBy]

\* part_002:359 the line update runs if showConnectionsRef.current holds;
\* without it no pair is written
NoLineUpdate == [least |-> 0, most |-> 0]
LineUpdate(show, count, positions) ==
  IF show THEN LineIdxAfter(count, positions) ELSE NoLineUpdate

\* part_002:82-86 applyRotation8D: the input after the call (reduce and map
\* build new values, the coordinates are only read)
CoordsAfterApplyRotation8D(coords, m) == coords

\* e8.ts:107-117 projectTo3D: the roots after the call (only read)
RootsAfterProjectTo3D(rs, pm) == rs

\* part_002:327-328 the root system after the forEach of a frame
SystemAfterFrame(system, m) ==
  [system EXCEPT !.roots =
     [n \in 1 .. Len(system.roots) |->
        [system.roots[n] EXCEPT !.coordinates =
           CoordsAfterApplyRotation8D(system.roots[n].coordinates, m)]]]

\* part_002:179-194 the root system after generateE8RootSystem and projectTo3D
SystemAfterSetup3D ==
  [GenerateE8RootSystem EXCEPT !.roots =
     RootsAfterProjectTo3D(GenerateE8RootSystem.roots, ViewProjection3D)]

\* a handler runs only between two calls of animate
\* (the mutant: it runs between the two steps of animate as well)
HandlerMayRun_always(p) == TRUE
HandlerMayRun(p) == p = "idle"

\* part_002:524-529 min={-Math.PI} step={0.01}: the value of a slider moved
\* to its n-th step, -PI + n * 0.01
SliderValue3D(n) == [q |-> -2, k |-> 0, t |-> 100 * n]

\* the sliders moved and the steps they are moved to (-0.001593, 0.928407
\* and 1.568407)
SliderIndices3D == {0, 7}
SliderSteps3D == {314, 407, 471}

\* the 3D view mounted: part_002:123-398 with the first call of animate
InitView3D ==
  /\ callee = "E8Visualization3D"
  /\ pc = "idle"
  /\ autoRotate = FALSE
  /\ showConnections = TRUE
  /\ manualAngles = InitialManualAngles
  /\ rotationAnglesRef = InitialAccumulated
  /\ e8System = SystemAfterFrame(SystemAfterSetup3D, IdentityMatrix)
  /\ projection = ViewProjection3D
  /\ direct = ProjectTo3D(GenerateE8RootSystem.roots, ViewProjection3D)
  /\ angles = CombinedAngles(InitialAccumulated, InitialManualAngles)
  /\ matrix = Matrix8DOf(angles)
  /\ framed = FramePositions(GenerateE8RootSystem.roots, matrix, ViewProjection3D)
  /\ lineCount = SetupLineCount
  /\ lineIdx = LineUpdate(TRUE, lineCount, framed)
  /\ GenIdle /\ pointA = <<>> /\ pointB = <<>> /\ projected = <<>>
  /\ View2DIdle

\* part_002:450-455 the "Auto Rotate (8D)" checkbox
SetAutoRotate ==
  /\ callee = "E8Visualization3D"
  /\ HandlerMayRun(pc)
  /\ \E checked \in BOOLEAN : autoRotate' = checked
  /\ UNCHANGED <<genVars, rotVars, projVars, frameVars, view2DVars,
                 showConnections, manualAngles, rotationAnglesRef, lineVars>>

\* part_002:460-465 the "Show Connections" checkbox
SetShowConnections ==
  /\ callee = "E8Visualization3D"
  /\ HandlerMayRun(pc)
  /\ \E checked \in BOOLEAN : showConnections' = checked
  /\ UNCHANGED <<genVars, rotVars, projVars, frameVars, view2DVars,
                 autoRotate, manualAngles, rotationAnglesRef, lineVars>>

\* part_002:530-534 the onChange of the slider idx
SetManualAngle ==
  /\ callee = "E8Visualization3D"
  /\ HandlerMayRun(pc)
  /\ \E idx \in SliderIndices3D, step \in SliderSteps3D :
       manualAngles' = [manualAngles EXCEPT ![idx + 1] = SliderValue3D(step)]
  /\ UNCHANGED <<genVars, rotVars, projVars, frameVars, view2DVars,
                 autoRotate, showConnections, rotationAnglesRef, lineVars>>

\* part_002:500 the Reset button
ResetManualAngles ==
  /\ callee = "E8Visualization3D"
  /\ HandlerMayRun(pc)
  /\ manualAngles' = [n \in 1 .. 8 |-> ZeroRadians]
  /\ UNCHANGED <<genVars, rotVars, projVars, frameVars, view2DVars,
                 autoRotate, showConnections, rotationAnglesRef, lineVars>>

\* part_002:301-325 animate up to rotMatrix
FrameBegin ==
  /\ callee = "E8Visualization3D"
  /\ pc = "idle"
  /\ autoRotate => rotationAnglesRef[1] < MaxAutoFrames * AutoStep(0)
  /\ rotationAnglesRef' = Accumulated(rotationAnglesRef, autoRotate)
  /\ angles' = CombinedAngles(rotationAnglesRef', manualAngles)
  /\ matrix' = Matrix8DOf(angles')
  /\ pc' = "rotate"
  /\ UNCHANGED <<genLocals, e8System, callee, projVars, frameVars, view2DVars,
                 autoRotate, showConnections, manualAngles, lineVars>>

\* part_002:327-395 animate from e8System.roots.forEach on
FrameRoots ==
  /\ callee = "E8Visualization3D"
  /\ pc = "rotate"
  /\ framed' = FramePositions(e8System.roots, matrix, projection)
  /\ e8System' = SystemAfterFrame(e8System, matrix)
  /\ lineIdx' = LineUpdate(showConnections, lineCount, framed')
  /\ pc' = "idle"
  /\ UNCHANGED <<genLocals, rotVars, projVars, direct, view2DVars,
                 autoRotate, showConnections, manualAngles, rotationAnglesRef,
                 lineCount>>

NextView3D ==
  \/ SetAutoRotate \/ SetShowConnections \/ SetManualAngle \/ ResetManualAngles
  \/ FrameBegin \/ FrameRoots

SpecView3D == InitView3D /\ [][NextView3D]_vars

\* the component mounted is the 2D view or the 3D view
InitViews == InitView2D \/ InitView3D
NextViews == NextView2D \/ NextView3D
SpecViews == InitViews /\ [][NextViews]_vars

----------------------------------------------------------------------------
(* One frame of animate with its line update, part_002:320-389, after the  *)
(* setup of part_002:179-267, on a snapshot of combined angles whose       *)
(* cosine and sine are rational, so that the positions and the distances   *)
(* of the frame are computed.  Tilt = atan(4/3) = 0.927295 lies 0.0011     *)
(* from the value 0.928407 of a slider.                                    *)

\* the planes given an angle (idx 0, 4, 7) and the angles given
LinePlanes == {1, 5, 8}
LineAngles == {ZeroAngle, [q |-> 1, k |-> 0], [q |-> 0, k |-> 1]}

\* the snapshots of the frames: at most two planes are given Tilt
LineAngleSets ==
  {[n \in 1 .. Len(Planes8D) |-> IF n \in LinePlanes THEN f[n] ELSE ZeroAngle] :
     f \in {g \in [LinePlanes -> LineAngles] : \E n \in LinePlanes : g[n].k = 0}}

InitLines ==
  /\ callee = "animate"
  /\ pc = "lines"
  /\ e8System = GenerateE8RootSystem
  /\ angles \in LineAngleSets
  /\ showConnections \in BOOLEAN
  /\ projection = ViewProjection3D
  /\ direct = ProjectTo3D(GenerateE8RootSystem.roots, ViewProjection3D)
  /\ lineCount = SetupLineCount
  /\ lineIdx = <<>>
  /\ matrix = <<>>
  /\ framed = <<>>
  /\ autoRotate = FALSE /\ manualAngles = <<>> /\ rotationAnglesRef = <<>>
  /\ GenIdle /\ pointA = <<>> /\ pointB = <<>> /\ projected = <<>>
  /\ View2DIdle

\* part_002:325-353 rotMatrix and the rotated, projected position of every
\* root
RotateFrame ==
  /\ callee = "animate"
  /\ pc = "lines"
  /\ framed = <<>>
  /\ matrix' = CreateRotationMatrix8D(angles)
  /\ framed' = FramePoints(e8System.roots, matrix', projection)
  /\ UNCHANGED <<genVars, callee, angles, projVars, direct, viewVars>>

\* part_002:358-389 the line update on the positions of the frame
UpdateLines ==
  /\ callee = "animate"
  /\ pc = "lines"
  /\ framed # <<>>
  /\ lineIdx = <<>>
  /\ lineIdx' = LineUpdate(showConnections, lineCount, framed)
  /\ UNCHANGED <<genVars, rotVars, projVars, frameVars, view2DVars,
                 autoRotate, showConnections, manualAngles, rotationAnglesRef,
                 lineCount>>

NextLines == RotateFrame \/ UpdateLines

SpecLines == InitLines /\ [][NextLines]_vars

\* the line update of the frame ran and wrote
LinesWritten ==
  /\ callee = "animate"
  /\ pc = "lines"
  /\ lineIdx # <<>>
  /\ lineIdx.least > 0

\* C21 as claimed: in every frame of the 3D view the line update writes
\* only vertex indices below the vertex count of the line buffer fixed at
\* setup: for the last pair written, lineIdx * 2 + 1 < linePositionAttr.count
\* (taken in the claim's favour: the fewest pairs the frame can have
\* written, the largest count the setup can have given).
C21_WritesWithinBuffer ==
  LinesWritten => (lineIdx.least - 1) * 2 + 1 < lineCount.most

C21_Witness ==
  /\ LinesWritten
  /\ showConnections
  /\ angles[8] = [q |-> 0, k |-> 1]
  /\ \A n \in 1 .. 7 : angles[n] = ZeroAngle
  /\ lineCount = [least |-> 18732, most |-> 18810]
  /\ lineIdx.least = 9598
  /\ (lineIdx.least - 1) * 2 + 1 >= lineCount.most

----------------------------------------------------------------------------
(* Properties of the two views *)

\* C12: the generated root set is immutable: after any sequence of
\* rotation, projection, slider-change, reset and animation-frame
\* operations of either view, every root's coordinates and index are those
\* generateE8RootSystem returned.
C12_RootsImmutable ==
  /\ e8System = GenerateE8RootSystem
  /\ \A n \in 1 .. Len(e8System.roots) :
       /\ e8System.roots[n].coordinates
            = GenerateE8RootSystem.roots[n].coordinates
       /\ e8System.roots[n].index = n - 1

C12_Witness ==
  /\ callee = "E8Visualization3D"
  /\ pc = "idle"
  /\ manualAngles[1] = SliderValue3D(471)
  /\ angles = CombinedAngles(rotationAnglesRef, manualAngles)
  /\ matrix = [of |-> angles]
  /\ framed = [rotatedBy |-> angles]
  /\ e8System.roots[1].coordinates = <<-Unit, -Unit, 0, 0, 0, 0, 0, 0>>

\* C13: within one frame of the 3D view the angle state is read once, one
\* rotation matrix is computed from that snapshot, and all 240 roots are
\* rotated and projected with that matrix; no slider change, reset or
\* toggle comes between, so that while a frame runs the snapshot is the
\* angle state, and the positions a frame leaves are those of one snapshot.
C13_OneSnapshotPerFrame ==
  callee = "E8Visualization3D" =>
    /\ matrix = Matrix8DOf(angles)
    /\ pc = "rotate" =>
         angles = CombinedAngles(rotationAnglesRef, manualAngles)
    /\ pc = "idle" =>
         /\ framed = FramePositions(e8System.roots, Matrix8DOf(angles), projection)
         /\ IsExact(angles) =>
              /\ Len(framed.points) = 240
              /\ \A n \in 1 .. 240 :
                   framed.points[n] =
                     ProjectRotated(ApplyRotation8D(e8System.roots[n].coordinates,
                                                    matrix), projection)

C13_Witness ==
  /\ callee = "E8Visualization3D"
  /\ pc = "idle"
  /\ angles[1] = SliderValue3D(471)
  /\ angles[8] = SliderValue3D(407)
  /\ manualAngles[1] = ZeroRadians
  /\ matrix = [of |-> angles]
  /\ framed = [rotatedBy |-> angles]

\* some accumulated angle is not 0
HasAccumulated(acc) == \E n \in 1 .. Len(acc) : acc[n] # 0

\* every combined angle is 0
AllZeroCombined(as) ==
  \A n \in 1 .. Len(as) : as[n] = ZeroRadians

\* a step of animate up to rotMatrix
IsFrameBegin == callee = "E8Visualization3D" /\ pc = "idle" /\ pc' = "rotate"

\* C20: in the 3D view the accumulated auto-rotation angles change only in
\* frames where auto-rotate is on (angle i grows by 0.002 + i * 0.0003) and
\* are unchanged by every other action; Reset zeroes only the manual
\* angles, so once a frame has run with auto-rotate on, the applied
\* rotation (accumulated + manual) is not all-zero whatever is reset or
\* switched off afterwards; the 2D view's "Reset All Rotations" returns its
\* 28 angles to 0.
C20_ResetKeepsAccumulated ==
  [][/\ rotationAnglesRef' # rotationAnglesRef => IsFrameBegin /\ autoRotate
     /\ (IsFrameBegin /\ autoRotate) =>
          \A i \in 0 .. 7 :
            rotationAnglesRef'[i + 1] = rotationAnglesRef[i + 1] + 20 + i * 3
     /\ ResetManualAngles =>
          /\ \A n \in 1 .. 8 : manualAngles'[n] = ZeroRadians
          /\ rotationAnglesRef' = rotationAnglesRef
          /\ autoRotate' = autoRotate
     /\ HasAccumulated(rotationAnglesRef) =>
          /\ HasAccumulated(rotationAnglesRef')
          /\ ~AllZeroCombined(CombinedAngles(rotationAnglesRef', manualAngles'))
          /\ IsFrameBegin => ~AllZeroCombined(angles')
     /\ ResetAllRotations =>
          /\ Len(angles') = 28
          /\ \A n \in 1 .. 28 : angles'[n] = ZeroRadians
          /\ matrix' = IdentityMatrix
    ]_vars

C20_Witness ==
  /\ callee = "E8Visualization3D"
  /\ pc = "idle"
  /\ ~autoRotate
  /\ manualAngles = InitialManualAngles
  /\ rotationAnglesRef[1] = 20
  /\ rotationAnglesRef[8] = 41
  /\ angles = CombinedAngles(rotationAnglesRef, manualAngles)
  /\ framed = [rotatedBy |-> angles]

====
